---------------------------- MODULE Spec2Model ----------------------------
(***************************************************************************)
(* DNA-Identifier: the STR repeat scanner (longest_match of dna.py and of  *)
(* dna_advanced.py), the exact-match loop of dna.py, the tolerant scoring  *)
(* and ranking loop of dna_advanced.py, and calculate_match_probability.   *)
(*                                                                         *)
(* Strings are sequences of one-character strings.  Python floats are      *)
(* IEEE-754 doubles: a positive double is [m, e] with m a 53-bit mantissa  *)
(* (little-endian limbs of 14 bits) and value m * 2^e; arithmetic rounds   *)
(* to nearest, ties to even.                                               *)
(***************************************************************************)
EXTENDS Integers, Sequences, FiniteSets, TLC

(***************************************************************************)
(* Bounds of the model.                                                    *)
(***************************************************************************)
\* longest DNA sequence scanned
MaxSeqLen == 8
\* longest repeat unit
MaxUnitLen == 3
\* most profiles in a database
MaxDb == 2
\* largest repeat count stored in a database row
MaxAllele == 1
\* largest repeat count scanned from the sequence
MaxScan == 3
\* most columns of the marker list handed to calculate_match_probability
MaxMarkers == 4

(***************************************************************************)
(* Python float arithmetic (IEEE-754 binary64, positive values and zero).  *)
(***************************************************************************)
LimbBits == 14
Base == 16384
MantBits == 53

RECURSIVE Pow2(_)
Pow2(n) == IF n = 0 THEN 1 ELSE 2 * Pow2(n - 1)

Limb(a, j) == IF j >= 1 /\ j <= Len(a) THEN a[j] ELSE 0

RECURSIVE Trim(_)
Trim(a) == IF a = <<>> THEN a
           ELSE IF a[Len(a)] = 0 THEN Trim(SubSeq(a, 1, Len(a) - 1)) ELSE a

RECURSIVE NatToBig(_)
NatToBig(n) == IF n = 0 THEN <<>> ELSE <<n % Base>> \o NatToBig(n \div Base)

RECURSIVE BigToNat(_)
BigToNat(a) == IF a = <<>> THEN 0 ELSE a[1] + Base * BigToNat(Tail(a))

RECURSIVE SmallBitLen(_)
SmallBitLen(n) == IF n = 0 THEN 0 ELSE 1 + SmallBitLen(n \div 2)

BitLen(a) == IF a = <<>> THEN 0 ELSE LimbBits * (Len(a) - 1) + SmallBitLen(a[Len(a)])

Bit(a, k) == (Limb(a, (k \div LimbBits) + 1) \div Pow2(k % LimbBits)) % 2

\* a * 2^s
ShiftLeft(a, s) ==
    IF a = <<>> THEN <<>>
    ELSE LET ls == s \div LimbBits
             bs == s % LimbBits
             n  == Len(a) + ls + 1
         IN Trim([j \in 1..n |->
                    IF j <= ls THEN 0
                    ELSE ((Limb(a, j - ls) * Pow2(bs)) % Base)
                         + (Limb(a, j - ls - 1) \div Pow2(LimbBits - bs))])

\* floor(a / 2^s)
ShiftRight(a, s) ==
    LET ls == s \div LimbBits
        bs == s % LimbBits
        n  == IF Len(a) > ls THEN Len(a) - ls ELSE 0
    IN Trim([j \in 1..n |->
               (Limb(a, j + ls) \div Pow2(bs))
               + ((Limb(a, j + ls + 1) % Pow2(bs)) * Pow2(LimbBits - bs))])

\* a mod 2^s # 0
LowNonZero(a, s) ==
    \E j \in 1..Len(a) :
        \/ j <= s \div LimbBits /\ a[j] # 0
        \/ j = (s \div LimbBits) + 1 /\ a[j] % Pow2(s % LimbBits) # 0

RECURSIVE CmpFrom(_, _, _)
CmpFrom(a, b, j) == IF j = 0 THEN 0
                    ELSE IF Limb(a, j) < Limb(b, j) THEN -1
                    ELSE IF Limb(a, j) > Limb(b, j) THEN 1
                    ELSE CmpFrom(a, b, j - 1)

Cmp(a, b) == CmpFrom(a, b, IF Len(a) > Len(b) THEN Len(a) ELSE Len(b))

RECURSIVE AddFrom(_, _, _, _)
AddFrom(a, b, j, c) ==
    IF j > Len(a) /\ j > Len(b) THEN (IF c = 0 THEN <<>> ELSE <<c>>)
    ELSE LET s == Limb(a, j) + Limb(b, j) + c
         IN <<s % Base>> \o AddFrom(a, b, j + 1, s \div Base)

BigAdd(a, b) == AddFrom(a, b, 1, 0)

RECURSIVE SubFrom(_, _, _, _)
SubFrom(a, b, j, br) ==
    IF j > Len(a) THEN <<>>
    ELSE LET d == Limb(a, j) - Limb(b, j) - br
         IN <<(d + Base) % Base>> \o SubFrom(a, b, j + 1, IF d < 0 THEN 1 ELSE 0)

\* a - b for a >= b
BigSub(a, b) == Trim(SubFrom(a, b, 1, 0))

RECURSIVE MulLimb(_, _, _, _)
MulLimb(a, d, j, c) ==
    IF j > Len(a) THEN (IF c = 0 THEN <<>> ELSE <<c>>)
    ELSE LET p == a[j] * d + c
         IN <<p % Base>> \o MulLimb(a, d, j + 1, p \div Base)

RECURSIVE MulFrom(_, _, _)
MulFrom(a, b, j) ==
    IF j > Len(b) THEN <<>>
    ELSE BigAdd(MulLimb(a, b[j], 1, 0), <<0>> \o MulFrom(a, b, j + 1))

BigMul(a, b) == Trim(MulFrom(a, b, 1))

\* 2 * a + c, c a bit
RECURSIVE DoubleFrom(_, _, _)
DoubleFrom(a, j, c) ==
    IF j > Len(a) THEN (IF c = 0 THEN <<>> ELSE <<c>>)
    ELSE LET s == 2 * a[j] + c
         IN <<s % Base>> \o DoubleFrom(a, j + 1, s \div Base)

Double(a, c) == DoubleFrom(a, 1, c)

\* restoring division, one bit of the dividend at a time: the bits of limb d
\* from mask p down are still to bring into the running remainder qr[2]
RECURSIVE DivBits(_, _, _, _)
DivBits(d, den, p, qr) ==
    IF p = 0 THEN qr
    ELSE LET r2 == Double(qr[2], (d \div p) % 2)
         IN IF Cmp(r2, den) >= 0
            THEN DivBits(d, den, p \div 2, <<Double(qr[1], 1), BigSub(r2, den)>>)
            ELSE DivBits(d, den, p \div 2, <<Double(qr[1], 0), r2>>)

RECURSIVE DivLimbs(_, _, _, _)
DivLimbs(num, den, j, qr) ==
    IF j = 0 THEN qr
    ELSE LET step == DivBits(num[j], den, Base \div 2, qr)
         IN IF Len(step) = 2 THEN DivLimbs(num, den, j - 1, step) ELSE qr

BigDivMod(num, den) == DivLimbs(num, den, Len(num), <<<<>>, <<>>>>)

Zero == [m |-> <<>>, e |-> 0]

\* nearest double to n * 2^e, ties to even
Round(n, e) ==
    LET L == BitLen(n)
    IN IF L = 0 THEN Zero
       ELSE IF L <= MantBits THEN [m |-> ShiftLeft(n, MantBits - L), e |-> e - (MantBits - L)]
       ELSE LET s    == L - MantBits
                q    == ShiftRight(n, s)
                up   == Bit(n, s - 1) = 1 /\ (LowNonZero(n, s - 1) \/ Bit(q, 0) = 1)
                q2   == IF up THEN BigAdd(q, <<1>>) ELSE q
            IN IF BitLen(q2) > MantBits
               THEN [m |-> ShiftRight(q2, 1), e |-> e + s + 1]
               ELSE [m |-> q2, e |-> e + s]

FMul(x, y) == IF x.m = <<>> \/ y.m = <<>> THEN Zero ELSE Round(BigMul(x.m, y.m), x.e + y.e)

FDiv(x, y) ==
    IF x.m = <<>> THEN Zero
    ELSE LET qr == BigDivMod(ShiftLeft(x.m, MantBits + 2), y.m)
             n  == BigAdd(ShiftLeft(qr[1], 1), IF qr[2] = <<>> THEN <<>> ELSE <<1>>)
         IN Round(n, x.e - y.e - (MantBits + 2) - 1)

FCmp(x, y) ==
    IF x.m = <<>> /\ y.m = <<>> THEN 0
    ELSE IF x.m = <<>> THEN -1
    ELSE IF y.m = <<>> THEN 1
    ELSE IF x.e < y.e THEN -1
    ELSE IF x.e > y.e THEN 1
    ELSE Cmp(x.m, y.m)

FromInt(n) == Round(NatToBig(n), 0)
FromHalves(h) == Round(NatToBig(h), -1)

\* int(x): truncation toward zero
Trunc(x) == IF x.m = <<>> THEN 0
            ELSE IF x.e >= 0 THEN BigToNat(ShiftLeft(x.m, x.e))
            ELSE BigToNat(ShiftRight(x.m, 0 - x.e))


(***************************************************************************)
(* State.                                                                  *)
(***************************************************************************)
VARIABLES
    pc,            \* position in the running function or program
    sequence,      \* longest_match: the DNA sequence
    subsequence,   \* longest_match: the repeat unit
    variant,       \* which longest_match is running: "dna" or "dna_advanced"
    i,             \* longest_match: starting position under test
    count,         \* longest_match: repeats found from i
    longest_run,   \* longest_match: best count so far
    ret,           \* what each longest_match returned: <<>> until it returns, then <<n>>
    database,      \* main: the rows read from the CSV file, in file order
    str_markers,   \* main: the marker columns (str_list in dna.py)
    str_counts,    \* main: marker -> scanned value
    person,        \* dna.py main: index of the row under comparison
    printed,       \* dna.py main: names printed by the comparison loop
    matches,       \* dna_advanced.py main: the scored (then sorted) results
    outcome,       \* main, calculate_match_probability: what was reported
    probability    \* dna_advanced.py main: result of calculate_match_probability

scanVars == <<sequence, subsequence, variant, i, count, longest_run, ret>>
mainVars == <<database, str_markers, str_counts, person, printed, matches,
              outcome, probability>>
vars == <<pc, scanVars, mainVars>>

None == "None"

\* no call has returned yet
NoReturn == [dna |-> <<>>, dna_advanced |-> <<>>]

\* every sequence over set S of length at most n
SeqsUpTo(S, n) == UNION {[1..k -> S] : k \in 0..n}

Max(a, b) == IF a > b THEN a ELSE b

\* the parts of the state a specification does not use
ScanIdle ==
    /\ sequence = <<>> /\ subsequence = <<>> /\ variant = None
    /\ i = 0 /\ count = 0 /\ longest_run = 0
    /\ ret = NoReturn

MainIdle ==
    /\ database = <<>> /\ str_markers = <<>> /\ str_counts = <<>>
    /\ person = 0 /\ printed = <<>> /\ matches = <<>>
    /\ outcome = None /\ probability = <<>>

(***************************************************************************)
(* longest_match, both variants, run on the same sequence and unit.        *)
(***************************************************************************)
Bases == {"A", "T"}

\* Python's sequence[start:end] for 0 <= start <= end <= len(sequence)
Slice(s, start, end) == SubSeq(s, start + 1, end)

\* a scan that stops one window short of the end of the sequence
PastEndEarly(start, sub_length, seq_length) == start + sub_length >= seq_length

\* dna.py line 92: the window at start runs past the end of the sequence
PastEnd(start, sub_length, seq_length) == start + sub_length > seq_length

\* dna_advanced.py line 155: positions the sliding window still visits
AdvInRange(pos, sub_length, seq_length) == pos < seq_length - sub_length

\* dna_advanced.py line 159: one more unit fits after count units from pos
AdvFits(pos, cnt, sub_length, seq_length) == pos + (cnt + 1) * sub_length <= seq_length

\* the caller hands the same arguments to the next variant, or is done
Returned(v, value) ==
    /\ ret' = [ret EXCEPT ![v] = <<value>>]
    /\ IF \E w \in DOMAIN ret : w # v /\ ret[w] = <<>>
       THEN /\ pc' = "call"
            /\ variant' = CHOOSE w \in DOMAIN ret : w # v /\ ret[w] = <<>>
       ELSE /\ pc' = "done"
            /\ variant' = variant

InitScan ==
    /\ sequence \in SeqsUpTo(Bases, MaxSeqLen)
    /\ subsequence \in SeqsUpTo(Bases, MaxUnitLen)
    /\ variant \in {"dna", "dna_advanced"}
    /\ pc = "call"
    /\ i = 0 /\ count = 0 /\ longest_run = 0
    /\ ret = NoReturn
    /\ MainIdle

\* dna.py lines 79-81
BasicCall ==
    /\ pc = "call" /\ variant = "dna"
    /\ longest_run' = 0 /\ i' = 0 /\ count' = 0
    /\ pc' = "for"
    /\ UNCHANGED <<sequence, subsequence, variant, ret, mainVars>>

\* dna.py lines 84-85: for i in range(seq_length)
BasicFor ==
    /\ pc = "for"
    /\ IF i < Len(sequence)
       THEN count' = 0 /\ pc' = "while"
       ELSE count' = count /\ pc' = "return"
    /\ UNCHANGED <<sequence, subsequence, variant, i, longest_run, ret, mainVars>>

\* dna.py lines 88-98: one pass of the while True loop.  The loop has no
\* bound of its own: count <= MaxSeqLen only keeps the model finite (a
\* non-empty unit never gets there, an empty unit spins up to it).
BasicWhile ==
    /\ pc = "while"
    /\ LET sub_length == Len(subsequence)
           seq_length == Len(sequence)
           start      == i + count * sub_length
           end        == start + sub_length
       IN IF PastEnd(start, sub_length, seq_length)
          THEN count' = count /\ pc' = "endfor"
          ELSE IF Slice(sequence, start, end) = subsequence
               THEN count <= MaxSeqLen /\ count' = count + 1 /\ pc' = "while"
               ELSE count' = count /\ pc' = "endfor"
    /\ UNCHANGED <<sequence, subsequence, variant, i, longest_run, ret, mainVars>>

\* dna.py line 100, and the for loop's step
BasicEndFor ==
    /\ pc = "endfor"
    /\ longest_run' = Max(longest_run, count)
    /\ i' = i + 1
    /\ pc' = "for"
    /\ UNCHANGED <<sequence, subsequence, count, variant, ret, mainVars>>

\* dna.py line 102
BasicReturn ==
    /\ pc = "return"
    /\ Returned("dna", longest_run)
    /\ UNCHANGED <<sequence, subsequence, i, count, longest_run, mainVars>>

\* dna_advanced.py lines 145-154
AdvCall ==
    /\ pc = "call" /\ variant = "dna_advanced"
    /\ longest_run' = 0 /\ i' = 0 /\ count' = 0
    /\ IF Len(subsequence) > Len(sequence)
       THEN Returned("dna_advanced", 0)
       ELSE pc' = "adv_outer" /\ UNCHANGED <<variant, ret>>
    /\ UNCHANGED <<sequence, subsequence, mainVars>>

\* dna_advanced.py lines 155-156
AdvOuter ==
    /\ pc = "adv_outer"
    /\ IF AdvInRange(i, Len(subsequence), Len(sequence))
       THEN count' = 0 /\ pc' = "adv_inner"
       ELSE count' = count /\ pc' = "adv_return"
    /\ UNCHANGED <<sequence, subsequence, variant, i, longest_run, ret, mainVars>>

\* dna_advanced.py lines 159-166: one pass of the inner while loop (count is
\* capped as in BasicWhile)
AdvInner ==
    /\ pc = "adv_inner"
    /\ LET sub_length == Len(subsequence)
           seq_length == Len(sequence)
           start      == i + count * sub_length
           end        == start + sub_length
       IN IF AdvFits(i, count, sub_length, seq_length)
             /\ Slice(sequence, start, end) = subsequence
          THEN count <= MaxSeqLen /\ count' = count + 1 /\ pc' = "adv_inner"
          ELSE count' = count /\ pc' = "adv_skip"
    /\ UNCHANGED <<sequence, subsequence, variant, i, longest_run, ret, mainVars>>

\* dna_advanced.py lines 168-172
AdvSkip ==
    /\ pc = "adv_skip"
    /\ IF count > 0
       THEN /\ longest_run' = Max(longest_run, count)
            /\ i' = i + count * Len(subsequence)
       ELSE /\ longest_run' = longest_run
            /\ i' = i + 1
    /\ pc' = "adv_outer"
    /\ UNCHANGED <<sequence, subsequence, count, variant, ret, mainVars>>

\* dna_advanced.py line 174
AdvReturn ==
    /\ pc = "adv_return"
    /\ Returned("dna_advanced", longest_run)
    /\ UNCHANGED <<sequence, subsequence, i, count, longest_run, mainVars>>

NextScan ==
    \/ BasicCall \/ BasicFor \/ BasicWhile \/ BasicEndFor \/ BasicReturn
    \/ AdvCall \/ AdvOuter \/ AdvInner \/ AdvSkip \/ AdvReturn

SpecScan == InitScan /\ [][NextScan]_vars

(***************************************************************************)
(* What a tandem-repeat count is (spec 4.1), stated without the loops.     *)
(***************************************************************************)
RECURSIVE Repeat(_, _)
Repeat(u, k) == IF k = 0 THEN <<>> ELSE u \o Repeat(u, k - 1)

\* S[s : s + k*len(U)] is U repeated k times
IsRun(S, U, s, k) ==
    /\ s + k * Len(U) <= Len(S)
    /\ Slice(S, s, s + k * Len(U)) = Repeat(U, k)

\* the largest k with a run of k units starting at index s (U non-empty)
RunAt(S, U, s) ==
    CHOOSE k \in 0..Len(S) :
        /\ IsRun(S, U, s, k)
        /\ \A k2 \in 0..Len(S) : IsRun(S, U, s, k2) => k2 <= k

\* the maximum over all starting indices, 0 when there is none
MaxRun(S, U) ==
    IF S = <<>> THEN 0
    ELSE CHOOSE m \in 0..Len(S) :
            /\ \E s \in 0..(Len(S) - 1) : RunAt(S, U, s) = m
            /\ \A s \in 0..(Len(S) - 1) : RunAt(S, U, s) <= m

Occurs(S, U) == \E s \in 0..Len(S) : IsRun(S, U, s, 1)

\* C1: for a non-empty unit, longest_match of dna.py returns a value >= 0
\* equal to the maximum over all starting indices of the longest run of
\* consecutive units there; 0 when the unit never occurs, when it is longer
\* than the sequence, and when the sequence is empty.
C1_ExhaustiveIsMaxRun ==
    (pc \in {"call", "done"} /\ ret.dna # <<>> /\ subsequence # <<>>) =>
        LET r == ret.dna[1]
        IN /\ r >= 0
           /\ r = MaxRun(sequence, subsequence)
           /\ (~Occurs(sequence, subsequence) => r = 0)
           /\ (Len(subsequence) > Len(sequence) => r = 0)
           /\ (sequence = <<>> => r = 0)

\* dna.py returned 2 or more for a unit of 2 or more bases whose only
\* longest run is the one that ends with the sequence
C1_Witness ==
    /\ pc \in {"call", "done"}
    /\ ret.dna # <<>> /\ Len(subsequence) >= 2
    /\ ret.dna[1] >= 2
    /\ LET last == Len(sequence) - ret.dna[1] * Len(subsequence)
       IN /\ last >= 1
          /\ RunAt(sequence, subsequence, last) = ret.dna[1]
          /\ \A s \in 0..(last - 1) : RunAt(sequence, subsequence, s) < ret.dna[1]

\* C2: when the sequence is exactly the unit repeated k >= 1 times, both
\* longest_match variants return k.
C2_ExactRepeats ==
    \A k \in 1..MaxSeqLen :
        (subsequence # <<>> /\ sequence = Repeat(subsequence, k)) =>
            \A v \in DOMAIN ret : ret[v] # <<>> => ret[v] = <<k>>

\* C7: a call with an empty unit fails: it never returns a count, and it
\* does not keep counting repeats past the end of the sequence.
C7_EmptyUnitFails ==
    subsequence = <<>> => (ret = NoReturn /\ count <= Len(sequence))

\* C10: the skip-ahead longest_match and the exhaustive one return the same
\* value for every sequence and every non-empty unit.
C10_VariantsAgree ==
    (subsequence # <<>> /\ ret.dna # <<>> /\ ret.dna_advanced # <<>>) =>
        ret.dna = ret.dna_advanced

(***************************************************************************)
(* The data both programs read: a CSV header and rows, a scanned profile.  *)
(* A Python dict is a sequence of <<key, value>> pairs in insertion order. *)
(***************************************************************************)
Get(dict, key) == dict[CHOOSE k \in 1..Len(dict) : dict[k][1] = key][2]

Keys(dict) == [k \in 1..Len(dict) |-> dict[k][1]]

Range(f) == {f[k] : k \in DOMAIN f}

\* row names, by position in the file
Names == <<"p1", "p2", "p3", "p4">>

\* dna_advanced.py lines 183-185
analyze_amelogenin(s) ==
    IF (\E k \in 1..Len(s) : s[k] = "Y")
       \/ (\E k \in 1..(Len(s) - 2) : SubSeq(s, k, k + 2) = <<"T", "A", "T">>)
    THEN "XY"
    ELSE "XX"

\* the values analyze_amelogenin can put into str_counts
AmelCalls == {analyze_amelogenin(s) : s \in SeqsUpTo(Bases, 3)}

\* what a cell of column marker holds once the file is loaded:
\* dna_advanced.py lines 33-35 keep 'X' and 'Y' and convert the rest with int()
CellValues(marker) == IF marker = "AMEL" THEN {"X", "Y"} ELSE 0..MaxAllele

\* what the scan stores for a marker: dna_advanced.py lines 54-59
ScanValues(marker) == IF marker = "AMEL" THEN AmelCalls ELSE 0..MaxScan

\* all dicts over the columns of header from position k on: the cells of a
\* loaded row, or (scanned) the values of a scanned profile
RECURSIVE Dicts(_, _, _)
Dicts(header, k, scanned) ==
    IF k > Len(header) THEN {<<>>}
    ELSE {<<<<header[k], v>>>> \o d :
             v \in (IF scanned THEN ScanValues(header[k]) ELSE CellValues(header[k])),
             d \in Dicts(header, k + 1, scanned)}

\* all databases of n rows over header
RECURSIVE Databases(_, _)
Databases(header, n) ==
    IF n = 0 THEN {<<>>}
    ELSE {Append(db, <<<<"name", Names[n]>>>> \o d) :
             db \in Databases(header, n - 1), d \in Dicts(header, 1, FALSE)}

\* the marker columns of the files dna.py is run on
StrHeaders == {<<>>, <<"AGAT">>, <<"AGAT", "AATG">>}

\* the marker columns of the files dna_advanced.py is run on
CodisHeaders == StrHeaders \cup {<<"AMEL", "AGAT">>, <<"AGAT", "AMEL">>}

Outcome(kind, name) == [kind |-> kind, name |-> name]

(***************************************************************************)
(* dna.py main, from the loaded database on (lines 39-72).                 *)
(***************************************************************************)
InitExact ==
    /\ pc = "dna_header"
    /\ \E header \in StrHeaders, n \in 0..MaxDb : database \in Databases(header, n)
    /\ str_markers = <<>> /\ str_counts = <<>>
    /\ person = 0 /\ printed = <<>> /\ matches = <<>>
    /\ outcome = Outcome(None, None) /\ probability = <<>>
    /\ ScanIdle

\* dna.py line 40: database[0] of an empty list raises IndexError
DnaHeader ==
    /\ pc = "dna_header"
    /\ IF database = <<>>
       THEN /\ outcome' = Outcome("IndexError", None)
            /\ pc' = "done"
            /\ UNCHANGED str_markers
       ELSE /\ str_markers' = Tail(Keys(database[1]))
            /\ pc' = "dna_scan"
            /\ UNCHANGED outcome
    /\ UNCHANGED <<database, str_counts, person, printed, matches, probability, scanVars>>

\* dna.py lines 44-48: one longest_match count per marker of the sequence file
DnaScan ==
    /\ pc = "dna_scan"
    /\ str_counts' \in Dicts(str_markers, 1, TRUE)
    /\ person' = 1
    /\ pc' = "dna_compare"
    /\ UNCHANGED <<database, str_markers, printed, matches, outcome, probability, scanVars>>

\* a comparison that only notices a database value above the scanned one
MismatchAbove(row, marker, counts) == Get(row, marker) > Get(counts, marker)

\* dna.py line 58
Mismatch(row, marker, counts) == Get(row, marker) # Get(counts, marker)

\* dna.py lines 57-61: the first marker that differs, 0 when none does
RECURSIVE FirstMismatch(_, _, _, _)
FirstMismatch(row, markers, counts, k) ==
    IF k > Len(markers) THEN 0
    ELSE IF Mismatch(row, markers[k], counts) THEN k
    ELSE FirstMismatch(row, markers, counts, k + 1)

\* dna.py lines 53-68: one pass of the loop over the database
DnaCompare ==
    /\ pc = "dna_compare"
    /\ person <= Len(database)
    /\ LET row   == database[person]
           first == FirstMismatch(row, str_markers, str_counts, 1)
       IN IF first = 0
          THEN /\ printed' = Append(printed, <<Get(row, "name"), "FULL MATCH">>)
               /\ outcome' = Outcome("Match", Get(row, "name"))
               /\ pc' = "done"
               /\ UNCHANGED person
          ELSE /\ printed' = Append(printed, <<Get(row, "name"), str_markers[first]>>)
               /\ person' = person + 1
               /\ UNCHANGED <<outcome, pc>>
    /\ UNCHANGED <<database, str_markers, str_counts, matches, probability, scanVars>>

\* dna.py lines 70-72
DnaNoMatch ==
    /\ pc = "dna_compare"
    /\ person > Len(database)
    /\ outcome' = Outcome("NoMatch", None)
    /\ pc' = "done"
    /\ UNCHANGED <<database, str_markers, str_counts, person, printed, matches,
                   probability, scanVars>>

NextExact == DnaHeader \/ DnaScan \/ DnaCompare \/ DnaNoMatch

SpecExact == InitExact /\ [][NextExact]_vars

\* row p of the database equals the scanned counts on every marker
EqualProfile(p) ==
    \A k \in 1..Len(str_markers) :
        Get(database[p], str_markers[k]) = Get(str_counts, str_markers[k])

\* C3: the exact-match loop reports the first row, in file order, that equals
\* the scanned counts on every marker, examines no row after it, and reports
\* 'no match' exactly when no row of the database equals the scanned counts.
C3_FirstExactMatch ==
    (pc = "done" /\ database # <<>>) =>
        LET hits == {p \in 1..Len(database) : EqualProfile(p)}
        IN /\ outcome.kind \in {"Match", "NoMatch"}
           /\ (outcome.kind = "NoMatch") <=> (hits = {})
           /\ outcome.kind = "Match" =>
                 \E p \in hits :
                    /\ \A q \in hits : p <= q
                    /\ outcome.name = Get(database[p], "name")
                    /\ Len(printed) = p
                    /\ \A q \in 1..p : printed[q][1] = Get(database[q], "name")
           /\ outcome.kind = "NoMatch" =>
                 /\ Len(printed) = Len(database)
                 /\ \A q \in 1..Len(database) : printed[q][1] = Get(database[q], "name")

\* two rows with the same marker values both equal the scanned counts, the
\* first was reported and the second never examined
C3_Witness ==
    /\ pc = "done" /\ Len(database) >= 2 /\ Len(str_markers) >= 2
    /\ EqualProfile(1) /\ EqualProfile(2)
    /\ outcome = Outcome("Match", "p1")
    /\ Len(printed) = 1

(***************************************************************************)
(* calculate_match_probability (dna_advanced.py lines 188-204).            *)
(***************************************************************************)
One == FromInt(1)

\* the float literal 0.1 of line 200: the double nearest to one tenth
Tenth == FDiv(FromInt(1), FromInt(10))

\* lines 196-201: the loop over markers from position k on
RECURSIVE ProbabilityLoop(_, _, _)
ProbabilityLoop(markers, k, prob) ==
    IF k > Len(markers) THEN prob
    ELSE IF markers[k] = "AMEL" THEN ProbabilityLoop(markers, k + 1, prob)
    ELSE ProbabilityLoop(markers, k + 1, FMul(prob, Tenth))

\* line 193 and line 204: int(1 / probability)
calculate_match_probability(counts, markers) ==
    Trunc(FDiv(One, ProbabilityLoop(markers, 1, One)))

(***************************************************************************)
(* dna_advanced.py main, from the loaded database on (lines 48-135).       *)
(***************************************************************************)
Hundred == FromInt(100)

\* the thresholds of lines 118 and 129
PositiveThreshold == FromInt(95)

PossibleThreshold == FromInt(70)

\* line 88: (match_score / len(str_markers)) * 100.  match_score is a sum of
\* 1 and 0.5, exact in a double, and is kept here in halves.
similarity(halves, n) == FMul(FDiv(FromHalves(halves), FromInt(n)), Hundred)

\* the longest header, and line 88 for every score it can give
MaxColumns == CHOOSE n \in 0..8 : /\ \E h \in CodisHeaders : Len(h) = n
                                 /\ \A h \in CodisHeaders : Len(h) <= n

SimilarityOf == [n \in 1..MaxColumns |-> [halves \in 0..(2 * n) |-> similarity(halves, n)]]

Abs(x) == IF x < 0 THEN 0 - x ELSE x

\* a scorer that gives a difference of 2 full credit
CreditLoose(diff) == IF diff = 0 \/ diff = 2 THEN 2 ELSE IF diff <= 2 THEN 1 ELSE 0

\* a scorer that gives an exact match only partial credit
CreditHalf(diff) == IF diff <= 2 THEN 1 ELSE 0

\* lines 80-86: what a repeat-count difference adds to match_score, in halves
Credit(diff) == IF diff = 0 THEN 2 ELSE IF diff <= 2 THEN 1 ELSE 0

\* lines 84 and 86: what a repeat-count difference appends to mismatches
Discrepancy(row, counts, marker, diff) ==
    IF diff = 0 THEN <<>>
    ELSE IF diff <= 2 THEN <<<<marker, "+/-", diff>>>>
    ELSE <<<<marker, Get(row, marker), "vs", Get(counts, marker)>>>>

\* lines 71-86: the loop over markers from position k on, for one row;
\* acc is <<match_score in halves, mismatches>>
RECURSIVE ScoreLoop(_, _, _, _, _)
ScoreLoop(row, markers, counts, k, acc) ==
    IF k > Len(markers) THEN acc
    ELSE LET marker == markers[k]
         IN IF marker = "AMEL"
            THEN IF Get(row, marker) = Get(counts, marker)
                 THEN ScoreLoop(row, markers, counts, k + 1, <<acc[1] + 2, acc[2]>>)
                 ELSE ScoreLoop(row, markers, counts, k + 1,
                                <<acc[1], Append(acc[2], <<marker>>)>>)
            ELSE LET diff == Abs(Get(row, marker) - Get(counts, marker))
                 IN ScoreLoop(row, markers, counts, k + 1,
                              <<acc[1] + Credit(diff),
                                acc[2] \o Discrepancy(row, counts, marker, diff)>>)

\* lines 67-93: the entry appended for one row
MatchEntry(row, markers, counts) ==
    LET scored == ScoreLoop(row, markers, counts, 1, <<0, <<>>>>)
    IN [name       |-> Get(row, "name"),
        similarity |-> SimilarityOf[Len(markers)][scored[1]],
        mismatches |-> scored[2]]

\* an insertion that puts an entry ahead of earlier entries of equal similarity
RECURSIVE InsertBeforeEqual(_, _)
InsertBeforeEqual(sorted, x) ==
    IF sorted = <<>> THEN <<x>>
    ELSE IF FCmp(Head(sorted).similarity, x.similarity) > 0
         THEN <<Head(sorted)>> \o InsertBeforeEqual(Tail(sorted), x)
         ELSE <<x>> \o sorted

\* line 96: list.sort(key=similarity, reverse=True) is a stable sort: an entry
\* goes behind every earlier entry whose similarity is at least its own
RECURSIVE InsertDescending(_, _)
InsertDescending(sorted, x) ==
    IF sorted = <<>> THEN <<x>>
    ELSE IF FCmp(Head(sorted).similarity, x.similarity) >= 0
         THEN <<Head(sorted)>> \o InsertDescending(Tail(sorted), x)
         ELSE <<x>> \o sorted

RECURSIVE SortDescending(_, _)
SortDescending(list, k) ==
    IF k = 0 THEN <<>> ELSE InsertDescending(SortDescending(list, k - 1), list[k])

InitRank ==
    /\ pc = "adv_scan"
    /\ str_markers \in CodisHeaders
    /\ \E n \in 0..MaxDb : database \in Databases(str_markers, n)
    /\ str_counts = <<>>
    /\ person = 0 /\ printed = <<>> /\ matches = <<>>
    /\ outcome = Outcome(None, None) /\ probability = <<>>
    /\ ScanIdle

\* lines 50-60: analyze_amelogenin for AMEL, a longest_match count otherwise
AdvScan ==
    /\ pc = "adv_scan"
    /\ str_counts' \in Dicts(str_markers, 1, TRUE)
    /\ pc' = "adv_match"
    /\ UNCHANGED <<database, str_markers, person, printed, matches, outcome,
                   probability, scanVars>>

\* lines 65-96: score every row, then sort; with rows to score and no marker
\* column line 88 divides by zero
AdvMatch ==
    /\ pc = "adv_match"
    /\ IF database # <<>> /\ str_markers = <<>>
       THEN /\ outcome' = Outcome("ZeroDivisionError", None)
            /\ pc' = "done"
            /\ UNCHANGED matches
       ELSE /\ matches' = SortDescending(
                             [k \in 1..Len(database) |->
                                 MatchEntry(database[k], str_markers, str_counts)],
                             Len(database))
            /\ pc' = "adv_report"
            /\ UNCHANGED outcome
    /\ UNCHANGED <<database, str_markers, str_counts, person, printed, probability,
                   scanVars>>

\* lines 112-135: matches[0] of an empty list raises IndexError
AdvReport ==
    /\ pc = "adv_report"
    /\ IF matches = <<>>
       THEN outcome' = Outcome("IndexError", None) /\ UNCHANGED probability
       ELSE LET best_match == matches[1]
            IN IF FCmp(best_match.similarity, PositiveThreshold) >= 0
               THEN /\ outcome' = Outcome("POSITIVE IDENTIFICATION", best_match.name)
                    /\ probability' = <<calculate_match_probability(str_counts, str_markers)>>
               ELSE IF FCmp(best_match.similarity, PossibleThreshold) >= 0
               THEN /\ outcome' = Outcome("POSSIBLE MATCH", best_match.name)
                    /\ UNCHANGED probability
               ELSE /\ outcome' = Outcome("NO MATCH IN DATABASE", None)
                    /\ UNCHANGED probability
    /\ pc' = "done"
    /\ UNCHANGED <<database, str_markers, str_counts, person, printed, matches, scanVars>>

NextRank == AdvScan \/ AdvMatch \/ AdvReport

SpecRank == InitRank /\ [][NextRank]_vars

\* the scoring loop has run and produced its list
Ranked == pc \in {"adv_report", "done"} /\ outcome.kind # "ZeroDivisionError"

\* the entry of matches made for row p of the database
EntryOf(p) == matches[CHOOSE k \in 1..Len(matches) : matches[k].name = Names[p]]

\* position in the database of the row an entry was made for
RowOf(entry) == CHOOSE p \in 1..Len(database) : Get(database[p], "name") = entry.name

\* C4: every similarity the scoring loop computes lies in [0, 100], and a row
\* equal to the scanned values on every marker gets exactly 100.0 and an
\* empty discrepancy list.
C4_SimilarityRange ==
    Ranked =>
        /\ \A k \in 1..Len(matches) :
              /\ FCmp(matches[k].similarity, Zero) >= 0
              /\ FCmp(matches[k].similarity, Hundred) <= 0
        /\ \A p \in 1..Len(database) :
              EqualProfile(p) =>
                  /\ EntryOf(p).similarity = Hundred
                  /\ EntryOf(p).mismatches = <<>>

\* a row equal to the scanned counts on two markers scored 100.0 beside a
\* row that scored strictly between 0 and 100
C4_Witness ==
    /\ Ranked /\ Len(str_markers) = 2 /\ Len(database) = 2
    /\ EqualProfile(2)
    /\ EntryOf(2).similarity = Hundred
    /\ FCmp(EntryOf(1).similarity, Zero) > 0
    /\ FCmp(EntryOf(1).similarity, Hundred) < 0

\* C5: the sorted result has exactly one entry per database row, is ordered
\* by non-increasing similarity, and rows of equal similarity keep their
\* database order.
C5_StableRanking ==
    Ranked =>
        /\ Len(matches) = Len(database)
        /\ \A p \in 1..Len(database) :
              Cardinality({k \in 1..Len(matches) :
                              matches[k].name = Get(database[p], "name")}) = 1
        /\ \A j, k \in 1..Len(matches) :
              j < k =>
                  /\ FCmp(matches[j].similarity, matches[k].similarity) >= 0
                  /\ FCmp(matches[j].similarity, matches[k].similarity) = 0
                        => RowOf(matches[j]) < RowOf(matches[k])

\* two rows with different discrepancies tie, at a similarity above 0, and
\* come out in database order
C5_Witness ==
    /\ Ranked /\ Len(matches) = 2
    /\ FCmp(matches[1].similarity, matches[2].similarity) = 0
    /\ FCmp(matches[1].similarity, Zero) > 0
    /\ matches[1].mismatches # matches[2].mismatches
    /\ matches[1].name = "p1" /\ matches[2].name = "p2"

\* the score the claim gives row p over its first k markers, in halves:
\* 1.0 at difference 0, 0.5 at difference 1 or 2, 0 beyond; the sex marker
\* 1.0 when equal and 0 otherwise
RECURSIVE ClaimedScore(_, _)
ClaimedScore(p, k) ==
    IF k = 0 THEN 0
    ELSE LET marker == str_markers[k]
             mine   == Get(database[p], marker)
             seen   == Get(str_counts, marker)
         IN ClaimedScore(p, k - 1)
            + (IF marker = "AMEL" THEN (IF mine = seen THEN 2 ELSE 0)
               ELSE IF mine = seen THEN 2
               ELSE IF Abs(mine - seen) \in {1, 2} THEN 1
               ELSE 0)

\* C6: similarity is monotone in the per-marker difference: of two rows that
\* agree on every marker but one non-sex marker, the one further from the
\* scanned count never has the higher similarity; a marker contributes 1.0
\* at difference 0, 0.5 at 1 or 2, and 0 beyond 2.
C6_MonotoneSimilarity ==
    Ranked =>
        /\ \A p \in 1..Len(database) :
              EntryOf(p).similarity
                  = SimilarityOf[Len(str_markers)][ClaimedScore(p, Len(str_markers))]
        /\ \A p, q \in 1..Len(database) : \A k \in 1..Len(str_markers) :
              ( /\ str_markers[k] # "AMEL"
                /\ \A j \in 1..Len(str_markers) :
                      j # k => Get(database[p], str_markers[j])
                                  = Get(database[q], str_markers[j])
                /\ Abs(Get(database[q], str_markers[k]) - Get(str_counts, str_markers[k]))
                      >= Abs(Get(database[p], str_markers[k])
                             - Get(str_counts, str_markers[k])) )
              => FCmp(EntryOf(q).similarity, EntryOf(p).similarity) <= 0

\* two rows agree on one marker and differ on the other by 2 and by 3 from
\* the scanned count; the nearer one has the strictly higher similarity
C6_Witness ==
    /\ Ranked /\ str_markers = <<"AGAT", "AATG">> /\ Len(database) = 2
    /\ Get(database[1], "AGAT") = Get(database[2], "AGAT")
    /\ Abs(Get(database[1], "AATG") - Get(str_counts, "AATG")) = 3
    /\ Abs(Get(database[2], "AATG") - Get(str_counts, "AATG")) = 2
    /\ FCmp(EntryOf(1).similarity, EntryOf(2).similarity) < 0
    /\ matches[1].name = "p2"

(***************************************************************************)
(* calculate_match_probability on its own, for every marker list.          *)
(***************************************************************************)
ProbMarkers == {"AMEL", "AGAT", "AATG", "TATC"}

\* the markers of a list, each once, in order of first appearance
RECURSIVE Distinct(_)
Distinct(list) ==
    IF list = <<>> THEN <<>>
    ELSE LET rest == Distinct(SubSeq(list, 1, Len(list) - 1))
             last == list[Len(list)]
         IN IF last \in Range(rest) THEN rest ELSE Append(rest, last)

\* marker lists in which no STR column name comes twice
ProbHeaders ==
    {h \in SeqsUpTo(ProbMarkers, MaxMarkers) :
        \A j, k \in 1..Len(h) : (j # k /\ h[j] = h[k]) => h[j] = "AMEL"}

\* a scanned profile with the same count c at every STR marker
UniformCounts(keys, c, call) ==
    [k \in 1..Len(keys) |-> <<keys[k], IF keys[k] = "AMEL" THEN call ELSE c>>]

InitProb ==
    /\ pc = "prob_call"
    /\ str_markers \in ProbHeaders
    /\ \E c \in 0..MaxScan, call \in AmelCalls :
          str_counts = UniformCounts(Distinct(str_markers), c, call)
    /\ database = <<>> /\ person = 0 /\ printed = <<>> /\ matches = <<>>
    /\ outcome = Outcome(None, None) /\ probability = <<>>
    /\ ScanIdle

\* dna_advanced.py lines 188-204
CalcProbability ==
    /\ pc = "prob_call"
    /\ probability' = <<calculate_match_probability(str_counts, str_markers)>>
    /\ pc' = "prob_done"
    /\ UNCHANGED <<database, str_markers, str_counts, person, printed, matches,
                   outcome, scanVars>>

NextProb == CalcProbability

SpecProb == InitProb /\ [][NextProb]_vars

RECURSIVE Pow10(_)
Pow10(k) == IF k = 0 THEN 1 ELSE 10 * Pow10(k - 1)

\* C8: for a marker list with k non-sex markers calculate_match_probability
\* returns floor(1 / 0.1^k), exactly 10^k, whatever the scanned counts.
C8_TenToTheK ==
    pc = "prob_done" =>
        probability = <<Pow10(Cardinality({j \in 1..Len(str_markers) :
                                              str_markers[j] # "AMEL"}))>>

(***************************************************************************)
(* Both programs, for what each does with an empty database.               *)
(***************************************************************************)
InitMain == InitExact \/ InitRank

NextMain == NextExact \/ NextRank

SpecMain == InitMain /\ [][NextMain]_vars

\* C9: with an empty database the exact-match path of dna.py and the ranking
\* path of dna_advanced.py end in the dedicated EmptyDatabaseError.
C9_EmptyDatabaseError ==
    (pc = "done" /\ database = <<>>) => outcome.kind = "EmptyDatabaseError"

(***************************************************************************)
(* The whole model.                                                        *)
(***************************************************************************)
Init == InitScan \/ InitMain \/ InitProb

Next == NextScan \/ NextMain \/ NextProb

Spec == Init /\ [][Next]_vars

=============================================================================
